---- MODULE Spec2Model ----
(***************************************************************************)
(* serviceWrapperSaga of redux-saga-service-wrapper: one cancellable,      *)
(* timeout-carrying remote call per invocation, with classification and    *)
(* logging of its failure and dispatch to a handler keyed by status.       *)
(*                                                                         *)
(* Two versions of the saga live in the repository and both are modelled:  *)
(*   "options"    src/unnamed/part_001 (options object, config merging)    *)
(*   "positional" src/src/index.ts     (positional handleError map)        *)
(* An invocation is a generator driven by the redux-saga runtime; it is    *)
(* suspended only at its yields.  Each action below is one resumption of   *)
(* the generator, run to its next yield or to its completion.              *)
(***************************************************************************)
EXTENDS Integers, Sequences, FiniteSets, TLC

\* Longest argument list a caller passes to the saga.
MaxArgs == 2

\* `timeout = 30000` of the options destructuring.
DefaultTimeout == 30000

\* Invocations that exist; Spec runs the first one alone.
Inv == {1, 2}
Solo == {1}

Versions == {"options", "positional"}

---------------------------------------------------------------------------
(* JavaScript values.  A scalar is [t, s, n]; an argument is [t, s, f]     *)
(* where f holds the own properties of an object.                          *)

Str(x)   == [t |-> "string", s |-> x, n |-> 0]
Num(k)   == [t |-> "number", s |-> "", n |-> k]
\* source.token of invocation i: one token per CancelToken.source().
Token(i) == [t |-> "token", s |-> "", n |-> i]
Undefined == [t |-> "undefined", s |-> "", n |-> 0]

\* Variant: one CancelToken.source() at module level, shared by every call.
SharedSource(i) == 1

\* const source = CancelToken.source(): a source of the invocation's own.
SourceOf(i) == i

NoFields == [k \in {} |-> Undefined]

StrArg(x) == [t |-> "string", s |-> x, f |-> NoFields]
NullArg   == [t |-> "null", s |-> "", f |-> NoFields]
ObjArg(fields) == [t |-> "object", s |-> "", f |-> fields]

\* {method: 'GET', url: '/x'}
GetX == ObjArg([k \in {"method", "url"} |-> IF k = "method" THEN Str("GET") ELSE Str("/x")])
\* {data: 'body', cancelToken: <caller's own>, timeout: 5}
PostOwn == ObjArg([k \in {"data", "cancelToken", "timeout"} |->
              CASE k = "data" -> Str("body")
                [] k = "cancelToken" -> Token(0)
                [] OTHER -> Num(5)])
\* {headers: 'h'}: an object with none of the recognised keys
Headers == ObjArg([k \in {"headers"} |-> Str("h")])

ArgVals == {StrArg("id123"), NullArg, GetX, PostOwn, Headers}

SeqsUpTo(S, n) == UNION {[1..m -> S] : m \in 0..n}
ArgLists == SeqsUpTo(ArgVals, MaxArgs)

\* options.timeout: omitted, or a number (0 is a number a caller may give).
Timeouts == {Undefined, Num(0), Num(10000)}

---------------------------------------------------------------------------
(* Responses, rejections, handler maps.                                    *)

NoResponse == [status |-> 0, statusText |-> "", data |-> ""]
OkResponses == {[status |-> 200, statusText |-> "OK", data |-> "payload"],
                [status |-> 201, statusText |-> "Created", data |-> "made"]}
ErrResponses == {[status |-> 404, statusText |-> "Not Found", data |-> "missing"],
                 [status |-> 500, statusText |-> "Server Error", data |-> "oops"]}
Statuses == {r.status : r \in ErrResponses}

\* What fn can reject with.  nullish: the rejection value is null/undefined.
\* cancel: it carries __CANCEL__; isAxiosError: it carries isAxiosError = true.
NoError == [name |-> "none", nullish |-> FALSE, cancel |-> FALSE,
            isAxiosError |-> FALSE, response |-> NoResponse, request |-> FALSE]
Rejections ==
    {[name |-> "fnError", nullish |-> FALSE, cancel |-> c, isAxiosError |-> a,
      response |-> r, request |-> q] :
        c \in BOOLEAN, a \in BOOLEAN, r \in ErrResponses \cup {NoResponse}, q \in BOOLEAN}
    \cup {[NoError EXCEPT !.name = "fnError", !.nullish = TRUE]}
\* The error a throwing handler throws, and the TypeError of a property read
\* on undefined.
HandlerError == [NoError EXCEPT !.name = "E2"]
TypeError    == [NoError EXCEPT !.name = "TypeError"]

\* handleError: omitted ("undefined") or a Map from status to a handler that
\* returns or throws.
NoMap == [k \in {} |-> "returns"]
HandlerMaps == UNION {[S -> {"returns", "throws"}] : S \in SUBSET Statuses}
HandleErrors == {[given |-> FALSE, map |-> NoMap]} \cup
                {[given |-> TRUE, map |-> m] : m \in HandlerMaps}

---------------------------------------------------------------------------
(* callServiceWithConfig: the argument list fn is called with.             *)

ConfigKeys == {"url", "method", "data", "params"}

\* Variant: any trailing object is taken for a config, its keys unread.
isLastArgAnyObject(args) ==
    /\ Len(args) > 0
    /\ args[Len(args)].t = "object"

\* lastArg && typeof lastArg === 'object' && ('url' in lastArg || ...)
isLastArgAxiosConfig(args) ==
    /\ Len(args) > 0
    /\ LET lastArg == args[Len(args)]
       IN  /\ lastArg.t = "object"
           /\ DOMAIN lastArg.f \cap ConfigKeys # {}

\* Variant: { ...axiosConfig, ...lastArg }, the caller's fields winning.
SpreadFirstWins(a, b) == [k \in DOMAIN a \cup DOMAIN b |-> IF k \in DOMAIN a THEN a[k] ELSE b[k]]

\* { ...lastArg, ...axiosConfig }
Spread(a, b) == [k \in DOMAIN a \cup DOMAIN b |-> IF k \in DOMAIN b THEN b[k] ELSE a[k]]

callServiceWithConfig(axiosConfig, args) ==
    IF isLastArgAxiosConfig(args)
    THEN LET mergedConfig == ObjArg(Spread(args[Len(args)].f, axiosConfig))
         IN  SubSeq(args, 1, Len(args) - 1) \o <<mergedConfig>>
    ELSE args \o <<ObjArg(axiosConfig)>>

\* Variant: `options.timeout || 30000`.
TimeoutOfFalsy(timeout) ==
    IF timeout = Undefined \/ timeout = Num(0) THEN Num(DefaultTimeout) ELSE timeout

\* const { handleError, timeout = 30000 } = options
TimeoutOf(timeout) == IF timeout = Undefined THEN Num(DefaultTimeout) ELSE timeout

\* { cancelToken: source.token, timeout }
AxiosConfig(i, timeout) ==
    [k \in {"cancelToken", "timeout"} |->
        IF k = "cancelToken" THEN Token(SourceOf(i)) ELSE TimeoutOf(timeout)]

\* index.ts: call(fn, ...args, { cancelToken: source.token })
PositionalArgs(i, args) ==
    args \o <<ObjArg([k \in {"cancelToken"} |-> Token(SourceOf(i))])>>

---------------------------------------------------------------------------
(* The catch blocks.                                                       *)

\* Variant: the catch block without its isCancel test.
isCancelNever(e) == FALSE

\* axios.isCancel(value): !!(value && value.__CANCEL__)
isCancel(e) == ~e.nullish /\ e.cancel

\* err && err.isAxiosError === true
isAxiosError(err) == ~err.nullish /\ err.isAxiosError

Event(ev, what, resp) == [ev |-> ev, what |-> what, resp |-> resp]

\* Variant: the request test placed before the response test.
ClassifyRequestFirst(error) ==
    IF isAxiosError(error)
    THEN IF error.request THEN "NetworkError"
         ELSE IF error.response # NoResponse THEN "ServerError"
         ELSE "SetupError"
    ELSE "UnknownError"

\* The branch of the if/else ladder a non-cancel rejection takes.
Classify(error) ==
    IF isAxiosError(error)
    THEN IF error.response # NoResponse THEN "ServerError"
         ELSE IF error.request THEN "NetworkError"
         ELSE "SetupError"
    ELSE "UnknownError"

\* The console.error of that branch; the server branch prints the status,
\* the statusText and the body of the response.
ErrorLog(error) ==
    LET class == Classify(error)
    IN  Event("error", class, IF class = "ServerError" THEN error.response ELSE NoResponse)

\* handleError && handleError.has(response.status), in the server branch.
HasHandler(h, error) ==
    /\ Classify(error) = "ServerError"
    /\ h.given
    /\ error.response.status \in DOMAIN h.map

\* Variant: the handler is called on has() and again on get().
RunHandlerTwice(h, status) ==
    <<Event("handler", h.map[status], [NoResponse EXCEPT !.status = status]),
      Event("handler", h.map[status], [NoResponse EXCEPT !.status = status])>>

\* errorHandler(): the handler runs, and returns or throws.
RunHandler(h, status) == <<Event("handler", h.map[status], [NoResponse EXCEPT !.status = status])>>

NoOutcome == [kind |-> "none", resp |-> NoResponse, err |-> NoError]
Returned(r) == [kind |-> "returned", resp |-> r, err |-> NoError]
Raised(e)   == [kind |-> "raised", resp |-> NoResponse, err |-> e]
\* gen.return(TASK_CANCEL): the task ends cancelled and hands its caller no value.
Cancelled   == [kind |-> "cancelled", resp |-> NoResponse, err |-> NoError]

\* Variant: the diagnostic is printed only when a handler takes the status.
CatchEventsLogsOnlyHandled(h, error) ==
    IF isCancel(error)
    THEN <<Event("log", "Request was cancelled", NoResponse)>>
    ELSE IF HasHandler(h, error)
         THEN <<ErrorLog(error)>> \o RunHandler(h, error.response.status)
         ELSE <<>>

\* Variant: the handler is dispatched before the diagnostic is printed.
CatchEventsHandlerFirst(h, error) ==
    IF isCancel(error)
    THEN <<Event("log", "Request was cancelled", NoResponse)>>
    ELSE (IF HasHandler(h, error) THEN RunHandler(h, error.response.status) ELSE <<>>)
         \o <<ErrorLog(error)>>

\* What the catch block of the options version prints and runs.
CatchEvents(h, error) ==
    IF isCancel(error)
    THEN <<Event("log", "Request was cancelled", NoResponse)>>
    ELSE <<ErrorLog(error)>> \o
         (IF HasHandler(h, error) THEN RunHandler(h, error.response.status) ELSE <<>>)

\* Variant: the catch block without its final `throw error`.
CatchCompletionSwallows(h, error) ==
    IF isCancel(error) THEN Returned(NoResponse)
    ELSE IF HasHandler(h, error) /\ h.map[error.response.status] = "throws"
         THEN Raised(HandlerError)
    ELSE Returned(NoResponse)

\* Variant: the handler call wrapped in its own try/catch.
CatchCompletionKeepsOriginal(h, error) ==
    IF isCancel(error) THEN Returned(NoResponse) ELSE Raised(error)

\* How the catch block of the options version completes: `return undefined`,
\* the handler's own throw, or `throw error`.
CatchCompletion(h, error) ==
    IF isCancel(error) THEN Returned(NoResponse)
    ELSE IF HasHandler(h, error) /\ h.map[error.response.status] = "throws"
         THEN Raised(HandlerError)
    ELSE Raised(error)

\* index.ts: const { response } = e; console.error(response, ...);
\* handleError?.get(response.status)?.()
\* Destructuring null/undefined throws; handleError?. skips the whole chain
\* when no map is given, and reads response.status otherwise.
PositionalReadsStatus(h, e) == ~e.nullish /\ h.given
PositionalHasHandler(h, e) ==
    /\ PositionalReadsStatus(h, e)
    /\ e.response # NoResponse
    /\ e.response.status \in DOMAIN h.map

PositionalCatchEvents(h, e) ==
    IF e.nullish THEN <<>>
    ELSE <<Event("error", "serviceWrapperSaga response", e.response)>> \o
         (IF PositionalHasHandler(h, e) THEN RunHandler(h, e.response.status) ELSE <<>>)

PositionalCatchCompletion(h, e) ==
    IF e.nullish THEN Raised(TypeError)
    ELSE IF PositionalReadsStatus(h, e) /\ e.response = NoResponse THEN Raised(TypeError)
    ELSE IF PositionalHasHandler(h, e) /\ h.map[e.response.status] = "throws"
         THEN Raised(HandlerError)
    ELSE Returned(NoResponse)

\* Variant: finally logs the cancellation but never calls source.cancel.
FinallyEventsNoSignal(v, c) ==
    <<Event("cancelled?", IF c THEN "true" ELSE "false", NoResponse)>> \o
    (IF c THEN <<Event("log", "Service call cancelled", NoResponse)>> ELSE <<>>)

\* Variant: finally calls source.cancel whatever `yield cancelled()` answers.
FinallyEventsAlwaysSignal(v, c) ==
    <<Event("cancelled?", IF c THEN "true" ELSE "false", NoResponse),
      Event("signal", "source.cancel", NoResponse)>>

\* Variant: no finally block.
FinallyEventsSkipped(v, c) == <<>>

\* The finally block after `yield cancelled()` answered c: source.cancel(...)
\* and a console.log when cancelled, nothing otherwise.
FinallyEvents(v, c) ==
    <<Event("cancelled?", IF c THEN "true" ELSE "false", NoResponse)>> \o
    (IF c
     THEN <<Event("signal", "source.cancel", NoResponse),
            Event("log", IF v = "options" THEN "Service call cancelled" ELSE "CANCELED",
                  NoResponse)>>
     ELSE <<>>)

\* The generator's completion as its caller sees it.
EndEvent(o) == Event("end", o.kind, o.resp)

---------------------------------------------------------------------------
VARIABLES
    pc,          \* where each invocation's generator stands
    version,     \* which saga was invoked
    handleError, \* the handler map given
    timeoutOpt,  \* options.timeout
    args,        \* the caller's ...args
    fnCalls,     \* the argument lists fn was called with, in order
    callState,   \* the promise fn returned: none, pending, resolved, rejected
    settled,     \* what that promise settled with, as the generator saw it
    hostCancel,  \* the runtime cancelled this task while it was running
    lateCancel,  \* the runtime was asked to cancel it after it had ended
    pending,     \* the completion the try/catch produced, held across finally
    events,      \* console output, handler runs, handle signals, in order
    outcome,     \* what the generator ended with
    signalled    \* the sources whose cancel() has been called

vars == <<pc, version, handleError, timeoutOpt, args, fnCalls, callState, settled,
          hostCancel, lateCancel, pending, events, outcome, signalled>>

Init ==
    /\ pc = [i \in Inv |-> "Idle"]
    /\ version = [i \in Inv |-> "options"]
    /\ handleError = [i \in Inv |-> [given |-> FALSE, map |-> NoMap]]
    /\ timeoutOpt = [i \in Inv |-> Undefined]
    /\ args = [i \in Inv |-> <<>>]
    /\ fnCalls = [i \in Inv |-> <<>>]
    /\ callState = [i \in Inv |-> "none"]
    /\ settled = [i \in Inv |-> NoOutcome]
    /\ hostCancel = [i \in Inv |-> FALSE]
    /\ lateCancel = [i \in Inv |-> FALSE]
    /\ pending = [i \in Inv |-> NoOutcome]
    /\ events = [i \in Inv |-> <<>>]
    /\ outcome = [i \in Inv |-> NoOutcome]
    /\ signalled = {}

\* The arguments the call effect hands fn.
CallArgs(i, v, t, a) ==
    IF v = "options" THEN callServiceWithConfig(AxiosConfig(i, t), a)
    ELSE PositionalArgs(i, a)

\* The generator runs from its start to `yield call(...)`; the runtime runs
\* the call effect, which calls fn and waits on its promise.
InvokeFrom(i, vs, hs, as, ts) ==
    /\ pc[i] = "Idle"
    /\ \E v \in vs, h \in hs, a \in as :
       \E t \in (IF v = "options" THEN ts ELSE {Undefined}) :
        /\ version' = [version EXCEPT ![i] = v]
        /\ handleError' = [handleError EXCEPT ![i] = h]
        /\ timeoutOpt' = [timeoutOpt EXCEPT ![i] = t]
        /\ args' = [args EXCEPT ![i] = a]
        /\ fnCalls' = [fnCalls EXCEPT ![i] = Append(@, CallArgs(i, v, t, a))]
    /\ callState' = [callState EXCEPT ![i] = "pending"]
    /\ pc' = [pc EXCEPT ![i] = "Calling"]
    /\ UNCHANGED <<settled, hostCancel, lateCancel, pending, events, outcome, signalled>>

Invoke(i) == InvokeFrom(i, Versions, HandleErrors, ArgLists, Timeouts)

\* fn's promise resolves: `return response` (options), `return yield call(...)`
\* (positional); the generator enters finally and stops at `yield cancelled()`.
\* Variant: `return response.data`.
TryCompletionDataOnly(r) == Returned([NoResponse EXCEPT !.data = r.data])

TryCompletion(r) == Returned(r)

Resolve(i) ==
    /\ pc[i] = "Calling"
    /\ \E r \in OkResponses :
        /\ settled' = [settled EXCEPT ![i] = Returned(r)]
        /\ pending' = [pending EXCEPT ![i] = TryCompletion(r)]
    /\ callState' = [callState EXCEPT ![i] = "resolved"]
    /\ pc' = [pc EXCEPT ![i] = "Finally"]
    /\ UNCHANGED <<version, handleError, timeoutOpt, args, fnCalls, hostCancel,
                   lateCancel, events, outcome, signalled>>

\* fn's promise rejects (or fn throws): the catch block runs, then the
\* generator enters finally and stops at `yield cancelled()`.
Reject(i) ==
    /\ pc[i] = "Calling"
    /\ \E e \in Rejections :
        /\ settled' = [settled EXCEPT ![i] = Raised(e)]
        /\ events' = [events EXCEPT ![i] = @ \o
              (IF version[i] = "options" THEN CatchEvents(handleError[i], e)
               ELSE PositionalCatchEvents(handleError[i], e))]
        /\ pending' = [pending EXCEPT ![i] =
              IF version[i] = "options" THEN CatchCompletion(handleError[i], e)
              ELSE PositionalCatchCompletion(handleError[i], e)]
    /\ callState' = [callState EXCEPT ![i] = "rejected"]
    /\ pc' = [pc EXCEPT ![i] = "Finally"]
    /\ UNCHANGED <<version, handleError, timeoutOpt, args, fnCalls, hostCancel,
                   lateCancel, outcome, signalled>>

\* Variant: the cancelled invocation goes on waiting for its call to settle.
HostCancelKeepsWaiting(i) ==
    /\ pc[i] = "Calling"
    /\ ~hostCancel[i]
    /\ hostCancel' = [hostCancel EXCEPT ![i] = TRUE]
    /\ UNCHANGED <<pc, version, handleError, timeoutOpt, args, fnCalls, callState, settled,
                   lateCancel, pending, events, outcome, signalled>>

\* The runtime cancels the task while it waits on fn's promise: it drops the
\* promise's callback and calls gen.return(TASK_CANCEL), which enters finally.
HostCancel(i) ==
    /\ pc[i] = "Calling"
    /\ hostCancel' = [hostCancel EXCEPT ![i] = TRUE]
    /\ pending' = [pending EXCEPT ![i] = Cancelled]
    /\ pc' = [pc EXCEPT ![i] = "Finally"]
    /\ UNCHANGED <<version, handleError, timeoutOpt, args, fnCalls, callState, settled,
                   lateCancel, events, outcome, signalled>>

\* Variant: finally ends in a `return`, which replaces a held throw.
CompletionReturnOverrides(held) ==
    IF held.kind = "raised" THEN Returned(NoResponse) ELSE held

\* `yield cancelled()` is answered with the task's cancelled flag; the rest
\* of finally runs and the held completion goes to the caller.
Completion(held) == held

\* Variant: after source.cancel() finally waits for the aborted call to
\* settle before it lets the generator end.
CleanupAwaitsAbort(i) ==
    /\ pc[i] = "Finally"
    /\ hostCancel[i] => callState[i] # "pending"
    /\ LET o == Completion(pending[i])
       IN  /\ events' = [events EXCEPT ![i] =
                  @ \o FinallyEvents(version[i], hostCancel[i]) \o <<EndEvent(o)>>]
           /\ outcome' = [outcome EXCEPT ![i] = o]
    /\ signalled' = signalled \cup (IF hostCancel[i] THEN {SourceOf(i)} ELSE {})
    /\ pc' = [pc EXCEPT ![i] = "Done"]
    /\ UNCHANGED <<version, handleError, timeoutOpt, args, fnCalls, callState, settled,
                   hostCancel, lateCancel, pending>>

Cleanup(i) ==
    /\ pc[i] = "Finally"
    /\ LET o == Completion(pending[i])
       IN  /\ events' = [events EXCEPT ![i] =
                  @ \o FinallyEvents(version[i], hostCancel[i]) \o <<EndEvent(o)>>]
           /\ outcome' = [outcome EXCEPT ![i] = o]
    /\ signalled' = signalled \cup
          (IF \E k \in DOMAIN FinallyEvents(version[i], hostCancel[i]) :
                 FinallyEvents(version[i], hostCancel[i])[k].ev = "signal"
           THEN {SourceOf(i)} ELSE {})
    /\ pc' = [pc EXCEPT ![i] = "Done"]
    /\ UNCHANGED <<version, handleError, timeoutOpt, args, fnCalls, callState, settled,
                   hostCancel, lateCancel, pending>>

\* task.cancel() on a task that is no longer running does nothing to it.
CancelAfterCompletion(i) ==
    /\ pc[i] = "Done"
    /\ ~lateCancel[i]
    /\ lateCancel' = [lateCancel EXCEPT ![i] = TRUE]
    /\ UNCHANGED <<pc, version, handleError, timeoutOpt, args, fnCalls, callState,
                   settled, hostCancel, pending, events, outcome, signalled>>

\* The promise of a cancelled task settles later (the abort's own rejection,
\* or anything else): its callback was dropped, the generator is not resumed.
LateSettle(i) ==
    /\ hostCancel[i]
    /\ callState[i] = "pending"
    /\ \E s \in {"resolved", "rejected"} : callState' = [callState EXCEPT ![i] = s]
    /\ UNCHANGED <<pc, version, handleError, timeoutOpt, args, fnCalls, settled,
                   hostCancel, lateCancel, pending, events, outcome, signalled>>

Step(i) ==
    \/ Invoke(i)
    \/ Resolve(i)
    \/ Reject(i)
    \/ HostCancel(i)
    \/ Cleanup(i)
    \/ CancelAfterCompletion(i)
    \/ LateSettle(i)

Next == \E i \in Solo : Step(i)

Spec == Init /\ [][Next]_vars

\* Two invocations in flight together, each on a few of the inputs.
PairArgLists == {<<GetX>>}
PairHandleErrors == {h \in HandleErrors : ~h.given \/ DOMAIN h.map = {404}}

InvokePair(i) == InvokeFrom(i, Versions, PairHandleErrors, PairArgLists, {Undefined})

StepPair(i) ==
    \/ InvokePair(i)
    \/ Resolve(i)
    \/ Reject(i)
    \/ HostCancel(i)
    \/ Cleanup(i)
    \/ CancelAfterCompletion(i)
    \/ LateSettle(i)

NextPair == \E i \in Inv : StepPair(i)

SpecPair == Init /\ [][NextPair]_vars

\* The runtime answers `yield cancelled()` at once and resumes the generator:
\* a generator standing in finally is always run to its end.  When fn's
\* promise settles, and whether the host cancels, is up to fn and the host.
Fairness == \A i \in Solo : WF_vars(Cleanup(i))

LiveSpec == Init /\ [][Next]_vars /\ Fairness

---------------------------------------------------------------------------
(* What happened in an invocation, read off its events.                    *)

Idx(i, ev) == {k \in DOMAIN events[i] : events[i][k].ev = ev}
Count(i, ev) == Cardinality(Idx(i, ev))
Signals(i)     == Count(i, "signal")
HandlerRuns(i) == Count(i, "handler")
ErrorLogs(i)   == Count(i, "error")
Queries(i)     == Idx(i, "cancelled?")
Ends(i)        == Idx(i, "end")
\* The handler runs that threw.
Threw(i) == {k \in Idx(i, "handler") : events[i][k].what = "throws"}
Ended(i) == pc[i] = "Done"
Rejected(i) == settled[i].kind = "raised"
Resolved(i) == settled[i].kind = "returned"
Options(i) == version[i] = "options"
\* The rejection fn produced, for an invocation whose call rejected.
Rejection(i) == settled[i].err
\* A failure: a rejection that is not a cancel rejection.
Failure(i) == Rejected(i) /\ ~(~Rejection(i).nullish /\ Rejection(i).cancel)
\* The rejection's status has a handler registered.
Registered(i) ==
    /\ handleError[i].given
    /\ Rejection(i).response # NoResponse
    /\ Rejection(i).response.status \in DOMAIN handleError[i].map

---------------------------------------------------------------------------
(* Claims.                                                                 *)

\* C1: in the options version, a rejection of fn that is not a cancel
\* rejection and whose handler (if one ran) returned normally ends the
\* invocation by raising exactly the value fn rejected with: never a normal
\* return, never another value, whatever the classification branch.
C1_OriginalReraised ==
    \A i \in Inv :
        (Options(i) /\ Ended(i) /\ Failure(i) /\ Threw(i) = {})
            => outcome[i] = Raised(Rejection(i))

C1_Witness ==
    \E i \in Inv :
        /\ Options(i) /\ Ended(i) /\ Failure(i)
        /\ Rejection(i).isAxiosError /\ Rejection(i).response.status = 500
        /\ HandlerRuns(i) = 1 /\ Threw(i) = {}
        /\ outcome[i].kind = "raised"

\* C2: a call cancelled by the host while suspended on the remote call
\* signals its handle exactly once and ends cancelled, handing the caller
\* no value and raising nothing (both versions).
C2_HostCancelSignalsOnce ==
    \A i \in Inv :
        (hostCancel[i] /\ Ended(i))
            => /\ Signals(i) = 1
               /\ outcome[i].kind = "cancelled"
               /\ outcome[i].resp = NoResponse
               /\ outcome[i].err = NoError

C2_Witness ==
    \E i \in Inv : hostCancel[i] /\ Ended(i) /\ Signals(i) = 1 /\ callState[i] = "rejected"

\* C3: in every state the handle has been signalled at most once, and only
\* if the host cancelled the invocation while it ran: never on success, on a
\* failure, on a cancel rejection, or for a cancel request after completion.
C3_SignalOnlyOnHostCancel ==
    \A i \in Inv :
        /\ Signals(i) <= 1
        /\ Signals(i) = 1 => hostCancel[i]
        /\ (pc[i] # "Idle" /\ ~hostCancel[i]) => Signals(i) = 0

C3_Witness ==
    \E i \in Inv :
        /\ Options(i) /\ Ended(i) /\ lateCancel[i] /\ ~hostCancel[i]
        /\ Rejected(i) /\ Signals(i) = 0

\* C4 as stated: every failure carrying a response whose status has a
\* handler runs that handler exactly once and (the handler having returned)
\* then re-raises the original error, the plain shape
\* {response: {status: 404, ...}} included.
C4_Original ==
    \A i \in Inv :
        (Options(i) /\ Ended(i) /\ Failure(i) /\ Registered(i))
            => /\ HandlerRuns(i) = 1
               /\ Threw(i) = {} => outcome[i] = Raised(Rejection(i))

\* C4 amended: a failure marked isAxiosError = true whose response status
\* has a handler runs that handler exactly once (and no other), and re-raises
\* the original error when the handler returned; a failure of the plain shape
\* (no isAxiosError mark) runs no handler and is re-raised.
C4_AxiosFailureRunsHandlerOnce ==
    \A i \in Inv :
        (Options(i) /\ Ended(i) /\ Failure(i) /\ Registered(i))
            => IF Rejection(i).isAxiosError
               THEN /\ HandlerRuns(i) = 1
                    /\ \A k \in Idx(i, "handler") :
                          events[i][k].resp.status = Rejection(i).response.status
                    /\ Threw(i) = {} => outcome[i] = Raised(Rejection(i))
               ELSE /\ HandlerRuns(i) = 0
                    /\ outcome[i] = Raised(Rejection(i))

C4_Witness ==
    \E i \in Inv :
        /\ Options(i) /\ Ended(i) /\ Failure(i) /\ Registered(i)
        /\ Rejection(i).isAxiosError
        /\ Rejection(i).response.status = 404
        /\ HandlerRuns(i) = 1
        /\ outcome[i] = Raised(Rejection(i))

\* C5: a failure whose status has no handler, or with no handler map at
\* all, runs no handler, still emits its diagnostic error log, and is still
\* re-raised to the caller.
C5_NoHandlerStillLogsAndRaises ==
    \A i \in Inv :
        (Options(i) /\ Ended(i) /\ Failure(i) /\ ~Registered(i))
            => /\ HandlerRuns(i) = 0
               /\ ErrorLogs(i) = 1
               /\ outcome[i] = Raised(Rejection(i))

C5_Witness ==
    \E i \in Inv :
        /\ Options(i) /\ Ended(i) /\ Failure(i) /\ ~Registered(i)
        /\ handleError[i].given /\ DOMAIN handleError[i].map = {500}
        /\ Rejection(i).isAxiosError /\ Rejection(i).response.status = 404
        /\ ErrorLogs(i) = 1

\* C6: a rejection recognised as a cancel (axios.isCancel) ends the
\* invocation with a normal return of no value: no error-level log, no
\* handler run (even when its status has one), nothing raised.
C6_CancelRejectionReturnsNoValue ==
    \A i \in Inv :
        (Options(i) /\ Ended(i) /\ Rejected(i) /\ ~Failure(i))
            => /\ outcome[i] = Returned(NoResponse)
               /\ ErrorLogs(i) = 0
               /\ HandlerRuns(i) = 0

C6_Witness ==
    \E i \in Inv :
        /\ Options(i) /\ Ended(i) /\ Rejected(i) /\ ~Failure(i)
        /\ Registered(i) /\ Rejection(i).isAxiosError
        /\ outcome[i].kind = "returned"

\* C7: a successful call returns the response fn produced, status,
\* statusText and data unchanged, with no error log, no handler run and no
\* signal of the handle (both versions).
C7_SuccessReturnsResponse ==
    \A i \in Inv :
        (Ended(i) /\ Resolved(i))
            => /\ outcome[i].kind = "returned"
               /\ outcome[i].resp.status = settled[i].resp.status
               /\ outcome[i].resp.statusText = settled[i].resp.statusText
               /\ outcome[i].resp.data = settled[i].resp.data
               /\ ErrorLogs(i) = 0
               /\ HandlerRuns(i) = 0
               /\ Signals(i) = 0

C7_Witness ==
    \E i \in Inv :
        /\ Options(i) /\ Ended(i) /\ Resolved(i)
        /\ outcome[i].resp.status = 201 /\ outcome[i].resp.data = "made"

\* C8: no terminal outcome reaches the caller before the cleanup step ran:
\* whenever an outcome has been delivered, the cancellation query of finally
\* precedes the delivery, and so does the signal when the host had cancelled.
C8_CleanupBeforeOutcome ==
    \A i \in Inv :
        /\ ~Ended(i) => outcome[i] = NoOutcome /\ Ends(i) = {}
        /\ Ended(i) =>
              /\ outcome[i] # NoOutcome
              /\ Ends(i) = {Len(events[i])}
              /\ \E q \in Queries(i) :
                    /\ q < Len(events[i])
                    /\ events[i][q].what = (IF hostCancel[i] THEN "true" ELSE "false")
                    /\ hostCancel[i] =>
                          \E s \in Idx(i, "signal") : q < s /\ s < Len(events[i])

C8_Witness ==
    \E i \in Inv :
        /\ Options(i) /\ Ended(i) /\ Threw(i) # {}
        /\ Queries(i) # {}
        /\ outcome[i].kind = "raised"

\* C9: when the handler run for a failure throws E2, the caller receives E2
\* in place of the original rejection, no second handler runs, and the
\* cleanup step still runs before E2 reaches the caller.
C9_HandlerThrowReplacesError ==
    \A i \in Inv :
        (Options(i) /\ Ended(i) /\ Threw(i) # {})
            => /\ outcome[i] = Raised(HandlerError)
               /\ outcome[i].err # Rejection(i)
               /\ HandlerRuns(i) = 1
               /\ \E q \in Queries(i) :
                     /\ \A k \in Threw(i) : k < q
                     /\ \A k \in Ends(i) : q < k

C9_Witness ==
    \E i \in Inv :
        /\ Options(i) /\ Ended(i) /\ Threw(i) # {}
        /\ DOMAIN handleError[i].map = {404, 500}
        /\ outcome[i].err.name = "E2"

\* C10: callServiceWithConfig hands fn Len(args) arguments when the last
\* element of args is a non-null object with one of the keys url, method,
\* data, params, the last being one merged object with the original fields
\* plus the injected cancelToken and timeout; otherwise it hands fn
\* Len(args)+1 arguments: args unchanged, then a new object holding only the
\* injected cancelToken and timeout.
C10_ConfigShaped(a) ==
    /\ Len(a) > 0
    /\ a[Len(a)].t = "object"
    /\ \E k \in {"url", "method", "data", "params"} : k \in DOMAIN a[Len(a)].f

C10_MergeOrAppend ==
    \A i \in Inv :
        (Options(i) /\ pc[i] # "Idle")
            => LET a == args[i]
                   r == fnCalls[i][1]
                   last == r[Len(r)]
                   injected == {"cancelToken", "timeout"}
               IN  /\ last.t = "object"
                   /\ last.f["cancelToken"] = Token(i)
                   /\ last.f["timeout"] = TimeoutOf(timeoutOpt[i])
                   /\ IF C10_ConfigShaped(a)
                      THEN /\ Len(r) = Len(a)
                           /\ \A j \in 1..(Len(a) - 1) : r[j] = a[j]
                           /\ DOMAIN last.f = DOMAIN a[Len(a)].f \cup injected
                           /\ \A k \in DOMAIN a[Len(a)].f \ injected :
                                 last.f[k] = a[Len(a)].f[k]
                      ELSE /\ Len(r) = Len(a) + 1
                           /\ \A j \in 1..Len(a) : r[j] = a[j]
                           /\ DOMAIN last.f = injected

C10_Witness ==
    \E i \in Inv :
        /\ Options(i) /\ pc[i] # "Idle"
        /\ args[i] = <<StrArg("id123"), GetX>>
        /\ Len(fnCalls[i][1]) = 2
        /\ DOMAIN fnCalls[i][1][2].f = {"method", "url", "cancelToken", "timeout"}
\* C11: the timeout in the configuration handed to fn is 30000 whenever
\* options carries no timeout, and exactly options.timeout otherwise,
\* whether the configuration was merged or appended.
C11_InjectedTimeout ==
    \A i \in Inv :
        (Options(i) /\ pc[i] # "Idle")
            => LET r == fnCalls[i][1]
                   given == r[Len(r)].f["timeout"]
               IN  IF timeoutOpt[i].t = "undefined"
                   THEN given.t = "number" /\ given.n = 30000
                   ELSE given = timeoutOpt[i]

C11_Witness ==
    \E i \in Inv :
        /\ Options(i) /\ pc[i] # "Idle"
        /\ timeoutOpt[i] = Undefined
        /\ args[i] = <<PostOwn>>
        /\ fnCalls[i][1][1].f["timeout"].n = 30000

\* A caller-supplied timeout of 0 reaches fn as 0.
C11_WitnessZero ==
    \E i \in Inv :
        /\ Options(i) /\ pc[i] # "Idle"
        /\ timeoutOpt[i] = Num(0)
        /\ fnCalls[i][1][Len(fnCalls[i][1])].f["timeout"].n = 0
\* C12 as stated: every non-cancel rejection emits exactly one error log,
\* classed by the ordered rules on what the rejection carries: a response
\* gives ServerError (logged with status, statusText and body), else a
\* request gives NetworkError, else the client-library mark gives SetupError,
\* anything else UnknownError.
C12_StatedClass(e) ==
    IF e.nullish THEN "UnknownError"
    ELSE IF e.response # NoResponse THEN "ServerError"
    ELSE IF e.request THEN "NetworkError"
    ELSE IF e.isAxiosError THEN "SetupError"
    ELSE "UnknownError"

C12_Original ==
    \A i \in Inv :
        (Options(i) /\ Ended(i) /\ Failure(i))
            => /\ ErrorLogs(i) = 1
               /\ \A k \in Idx(i, "error") :
                     events[i][k].what = C12_StatedClass(Rejection(i))

\* C12 amended: exactly one error log per non-cancel rejection; a rejection
\* without the isAxiosError mark is logged as UnknownError whatever it
\* carries; a marked one is ServerError (with the response's status,
\* statusText and body) if it carries a response, else NetworkError if it
\* carries a request, else SetupError.
C12_CodeClass(e) ==
    IF e.nullish \/ ~e.isAxiosError THEN "UnknownError"
    ELSE IF e.response # NoResponse THEN "ServerError"
    ELSE IF e.request THEN "NetworkError"
    ELSE "SetupError"

C12_OneLogClassedUnderAxiosMark ==
    \A i \in Inv :
        (Options(i) /\ Ended(i) /\ Failure(i))
            => /\ ErrorLogs(i) = 1
               /\ \A k \in Idx(i, "error") :
                     /\ events[i][k].what = C12_CodeClass(Rejection(i))
                     /\ events[i][k].what = "ServerError"
                           => events[i][k].resp = Rejection(i).response

C12_Witness ==
    \E i \in Inv :
        /\ Options(i) /\ Ended(i) /\ Failure(i)
        /\ Rejection(i).isAxiosError /\ Rejection(i).request
        /\ Rejection(i).response.status = 500
        /\ \E k \in Idx(i, "error") :
              events[i][k].what = "ServerError" /\ events[i][k].resp.statusText = "Server Error"
\* C13: within one invocation at most one handler is invoked, the one keyed
\* by exactly the rejection's response status; the failure's diagnostic log
\* comes before the handler runs, and the handler runs before the error is
\* raised to the caller.
C13_OneHandlerLogThenHandlerThenRaise ==
    \A i \in Inv :
        Options(i) =>
            /\ HandlerRuns(i) <= 1
            /\ \A k \in Idx(i, "handler") :
                  /\ Rejected(i)
                  /\ events[i][k].resp.status = Rejection(i).response.status
                  /\ handleError[i].given
                  /\ events[i][k].resp.status \in DOMAIN handleError[i].map
                  /\ events[i][k].what = handleError[i].map[events[i][k].resp.status]
                  /\ \E l \in Idx(i, "error") : l < k
                  /\ Ended(i) =>
                        /\ outcome[i].kind = "raised"
                        /\ \A e \in Ends(i) : k < e /\ events[i][e].what = "raised"

C13_Witness ==
    \E i \in Inv :
        /\ Options(i) /\ Ended(i)
        /\ DOMAIN handleError[i].map = {404, 500}
        /\ \E k \in Idx(i, "handler") :
              events[i][k].resp.status = 500 /\ events[i][k].what = "returns"
        /\ outcome[i] = Raised(Rejection(i))
\* C14: once the host has cancelled an invocation suspended on its call, the
\* invocation stays cancelled: it never goes back to waiting on the call, a
\* later settlement of the call (resolution, rejection, the abort's own
\* rejection) changes nothing of it, and it emits no error log, runs no
\* handler and raises nothing.
C14_CancelledStaysCancelled ==
    [][\A i \in Inv :
          hostCancel[i] =>
              /\ hostCancel'[i]
              /\ pc'[i] \in {"Finally", "Done"}
              /\ pc[i] = "Done" => pc'[i] = "Done"
              /\ callState'[i] # callState[i] =>
                    /\ pc'[i] = pc[i]
                    /\ events'[i] = events[i]
                    /\ pending'[i] = pending[i]
                    /\ outcome'[i] = outcome[i]
                    /\ settled'[i] = settled[i]
              /\ ErrorLogs(i)' = 0
              /\ HandlerRuns(i)' = 0
              /\ pending'[i] = Cancelled
              /\ outcome'[i] \in {NoOutcome, Cancelled}]_vars

C14_Witness ==
    \E i \in Inv :
        /\ hostCancel[i] /\ Ended(i)
        /\ callState[i] = "resolved"
        /\ outcome[i] = Cancelled
        /\ ErrorLogs(i) = 0
\* C15: with two invocations in flight each has a handle of its own: the
\* tokens handed to their fn differ, a host cancellation signals only the
\* cancelled invocation's handle, a step of one invocation changes nothing of
\* the other, and each ends with the outcome its own settlement, handlers and
\* cancellation give it when run alone.
C15_Alone(i) ==
    IF hostCancel[i] THEN Cancelled
    ELSE IF Resolved(i) THEN Returned(settled[i].resp)
    ELSE IF Options(i) THEN CatchCompletion(handleError[i], Rejection(i))
    ELSE PositionalCatchCompletion(handleError[i], Rejection(i))

C15_Mine(i) ==
    <<pc[i], version[i], handleError[i], timeoutOpt[i], args[i], fnCalls[i], callState[i],
      settled[i], hostCancel[i], lateCancel[i], pending[i], events[i], outcome[i]>>

C15_Stepped(j) ==
    pc'[j] # pc[j] \/ callState'[j] # callState[j] \/ lateCancel'[j] # lateCancel[j]

C15_OwnHandle ==
    /\ [](\A i \in Inv :
            /\ pc[i] # "Idle" =>
                  LET r == fnCalls[i][1]
                  IN  /\ r[Len(r)].f["cancelToken"] = Token(i)
                      /\ \A j \in Inv \ {i} : pc[j] # "Idle" =>
                            LET q == fnCalls[j][1]
                            IN  q[Len(q)].f["cancelToken"] # r[Len(r)].f["cancelToken"]
            /\ i \in signalled <=> (hostCancel[i] /\ Ended(i))
            /\ i \in signalled <=> Signals(i) = 1
            /\ Ended(i) => outcome[i] = C15_Alone(i))
    /\ [][\A i \in Inv :
            (\E j \in Inv \ {i} : C15_Stepped(j)) => C15_Mine(i)' = C15_Mine(i)]_vars

\* One invocation cancelled and ended, the other still waiting on its call
\* with its handle unsignalled; and both ended, one cancelled, one failed.
C15_Witness ==
    /\ hostCancel[2] /\ Ended(2) /\ signalled = {2}
    /\ Ended(1) /\ ~hostCancel[1] /\ Signals(1) = 0
    /\ outcome[1].kind = "raised" /\ outcome[2] = Cancelled
\* C16: every run of an invocation follows
\*   Idle -> Calling -> {Succeeded | Cancelling -> Cancelled | Failing -> Failed}:
\* fn is invoked exactly once (never again after a failure), the invocation
\* ends in exactly one of the three terminal outcomes, and a terminal state
\* is never left.  Succeeded: a response was returned; Cancelled: no value
\* (host cancellation, or a cancel rejection); Failed: an error was raised.
C16_State(i) ==
    CASE pc[i] = "Idle" -> "Idle"
      [] pc[i] = "Calling" -> "Calling"
      [] pc[i] = "Finally" ->
            IF hostCancel[i] \/ (Rejected(i) /\ ~Failure(i)) THEN "Cancelling"
            ELSE IF Rejected(i) THEN "Failing"
            ELSE "Calling"
      [] OTHER ->
            IF outcome[i].kind = "raised" THEN "Failed"
            ELSE IF outcome[i].kind = "returned" /\ outcome[i].resp # NoResponse
                 THEN "Succeeded"
            ELSE "Cancelled"

C16_Edges ==
    {<<"Idle", "Calling">>, <<"Calling", "Succeeded">>,
     <<"Calling", "Cancelling">>, <<"Cancelling", "Cancelled">>,
     <<"Calling", "Failing">>, <<"Failing", "Failed">>}

C16_StateMachine ==
    /\ [](\A i \in Inv :
            Options(i) =>
                /\ Len(fnCalls[i]) = (IF pc[i] = "Idle" THEN 0 ELSE 1)
                /\ Ended(i) <=> C16_State(i) \in {"Succeeded", "Cancelled", "Failed"}
                /\ C16_State(i) = "Succeeded" <=> (Ended(i) /\ Resolved(i))
                /\ C16_State(i) = "Failed" <=> (Ended(i) /\ Failure(i) /\ ~hostCancel[i]))
    /\ [][\A i \in Inv :
            Options(i)' =>
                \/ C16_State(i)' = C16_State(i)
                \/ <<C16_State(i), C16_State(i)'>> \in C16_Edges]_vars

C16_Witness ==
    \E i \in Inv :
        /\ Options(i) /\ C16_State(i) = "Failed" /\ lateCancel[i]
        /\ Len(fnCalls[i]) = 1
        /\ Rejection(i).isAxiosError /\ Rejection(i).request
\* C17: under fair scheduling an invocation whose call has settled, or
\* which the host has cancelled, reaches a terminal state; the invocation
\* waits nowhere but on its call, and it stops waiting on the call only
\* because the call settled or the host cancelled: no timer of the wrapper
\* ends the wait, an expired timeout arrives as a rejection from fn and takes
\* the catch block like any other.
C17_SettledOrCancelledTerminates ==
    /\ \A i \in Solo :
          (callState[i] \in {"resolved", "rejected"} \/ hostCancel[i]) ~> Ended(i)
    /\ [][\A i \in Inv :
            /\ (pc[i] = "Calling" /\ pc'[i] # "Calling") =>
                  \/ callState[i] = "pending" /\ callState'[i] \in {"resolved", "rejected"}
                  \/ ~hostCancel[i] /\ hostCancel'[i]
            /\ (pc[i] = "Calling" /\ callState'[i] = "rejected" /\ Options(i)) =>
                  pending'[i] = CatchCompletion(handleError[i], settled'[i].err)]_vars

C17_Witness ==
    \E i \in Solo :
        /\ Options(i) /\ Ended(i) /\ ~hostCancel[i]
        /\ Rejection(i).isAxiosError /\ Rejection(i).request
        /\ Rejection(i).response = NoResponse
        /\ ErrorLogs(i) = 1 /\ outcome[i] = Raised(Rejection(i))
        /\ timeoutOpt[i] = Num(10000)
\* C18: when the trailing argument is merged, every field of the caller's
\* configuration other than cancelToken and timeout reaches fn unchanged, no
\* field is dropped or invented, and the cancelToken and timeout fn receives
\* are the wrapper's own token and timeout, whatever the caller's object
\* carried under those keys.
C18_MergeKeepsFieldsOverwritesInjected ==
    \A i \in Inv :
        (Options(i) /\ pc[i] # "Idle" /\ C10_ConfigShaped(args[i]))
            => LET own == args[i][Len(args[i])].f
                   got == fnCalls[i][1][Len(args[i])].f
               IN  /\ Len(fnCalls[i][1]) = Len(args[i])
                   /\ DOMAIN got = DOMAIN own \cup {"cancelToken", "timeout"}
                   /\ \A k \in DOMAIN own \ {"cancelToken", "timeout"} : got[k] = own[k]
                   /\ got["cancelToken"].t = "token" /\ got["cancelToken"].n = i
                   /\ got["timeout"] =
                        (IF timeoutOpt[i].t = "undefined" THEN Num(30000) ELSE timeoutOpt[i])

\* The caller's own cancelToken and timeout: 5 are overwritten, its data kept.
C18_Witness ==
    \E i \in Inv :
        /\ Options(i) /\ pc[i] # "Idle"
        /\ args[i] = <<NullArg, PostOwn>>
        /\ timeoutOpt[i] = Num(10000)
        /\ fnCalls[i][1][2].f["data"] = Str("body")
        /\ fnCalls[i][1][2].f["cancelToken"] # PostOwn.f["cancelToken"]
        /\ fnCalls[i][1][2].f["timeout"] = Num(10000)

\* C19: in src/src/index.ts (positional handleError) every rejection of fn
\* is re-raised to the caller as the original value after logging and
\* handler dispatch: never swallowed into a normal return, never replaced.
C19_PositionalReraises ==
    \A i \in Inv :
        (version[i] = "positional" /\ Ended(i) /\ Rejected(i) /\ Threw(i) = {})
            => outcome[i] = Raised(Rejection(i))

\* What src/src/index.ts does with a rejection: a normal return of no value,
\* or a TypeError when the rejection is null/undefined or a handler map is
\* given and the rejection carries no response.
C19_PositionalSwallows ==
    \A i \in Inv :
        (version[i] = "positional" /\ Ended(i) /\ Rejected(i) /\ Threw(i) = {})
            => /\ outcome[i] # Raised(Rejection(i))
               /\ outcome[i] \in {Returned(NoResponse), Raised(TypeError)}
====
